---- MODULE Spec2Model ----
(***************************************************************************)
(* SearchServer: an in-memory inverted index with TF-IDF ranking.          *)
(*                                                                         *)
(* Characters are their ASCII codes (32 ' ', 45 '-', 97 'a', 98 'b',       *)
(* 18 the control character \x12); a string is a sequence of characters.   *)
(* A double is held in fixed point, RelScale units to 1.0, and every       *)
(* operation that rounds in the code (division, log, product) rounds here. *)
(***************************************************************************)
EXTENDS Integers, Sequences, FiniteSets, TLC

VARIABLES
    stop_words_,                  \* std::set<std::string>
    word_to_document_frequency_,  \* std::map<std::string, std::map<int, double>>
    storage_,                     \* std::map<int, DocumentData>
    documents_,                   \* std::vector<int>, the insertion-order list
    added_text,                   \* history: the text each live document was added with
    added_ratings,                \* history: the ratings each live document was added with
    added_order,                  \* history: the live documents, in the order they were added
    timeline_,                    \* RequestQueue: std::deque<int>, the result sizes in the window
    time_window_,                 \* RequestQueue: const int
    empty_results_metric_,        \* RequestQueue: int
    request_sizes,                \* history: the result size of every request, in call order
    last                          \* the most recent call and what it returned

server == <<stop_words_, word_to_document_frequency_, storage_, documents_>>
history == <<added_text, added_ratings, added_order>>
request_queue == <<timeline_, time_window_, empty_results_metric_, request_sizes>>
vars == <<stop_words_, word_to_document_frequency_, storage_, documents_, added_text,
          added_ratings, added_order, timeline_, time_window_, empty_results_metric_,
          request_sizes, last>>

----------------------------------------------------------------------------
(* Bounds *)

MaxDocs == 2
RankDocs == 3
CapDocs == 6
LongDocs == 4
QueryDocs == 2
DupDocs == 3
MaxWindow == 3
MaxRequests == 4
MaxReads == 2
MaxLength == 7
MaxPageSize == 8
MaxIterations == 2
MaxTextLength == 4

(* Program constants *)

kMaxResultDocumentSize == 5
kMinusWordPrefix == 45
RelScale == 100000000
kEpsilon == RelScale \div 1000000

\* int is 32 bits wide
IntMax == 2147483647
IntMin == -IntMax - 1

DocumentStatus == {"ACTUAL", "IRRELEVANT", "BANNED", "REMOVED"}

----------------------------------------------------------------------------
(* Helpers over sequences and maps *)

Range(s) == {s[i] : i \in DOMAIN s}

EmptyMap == [x \in {} |-> 0]

\* m[k] = v, inserting the key when absent (std::map::operator[] then assignment)
MapPut(m, k, v) == [x \in (DOMAIN m) \cup {k} |-> IF x = k THEN v ELSE m[x]]

\* std::map::erase(key)
MapErase(m, k) == [x \in (DOMAIN m) \ {k} |-> m[x]]

----------------------------------------------------------------------------
(* string_processing.cpp *)

\* the positions of the delimiter ' ' in the text, in order
Delimiters(text) ==
    SelectSeq([i \in 1 .. Len(text) |-> i], LAMBDA i : text[i] = 32)

\* while (getline(is, word, ' ')) words.push_back(word): getline fails only when
\* the stream is at its end before a character was read, so every delimiter
\* closes a (possibly empty) word, and the characters after the last delimiter
\* are a word when there are any.
SplitIntoWords(text) ==
    LET delimiters == Delimiters(text)
        count == IF text = <<>> THEN 0
                 ELSE IF text[Len(text)] = 32 THEN Len(delimiters)
                 ELSE Len(delimiters) + 1
    IN  [k \in 1 .. count |->
            SubSeq(text,
                   IF k = 1 THEN 1 ELSE delimiters[k - 1] + 1,
                   IF k <= Len(delimiters) THEN delimiters[k] - 1 ELSE Len(text))]

----------------------------------------------------------------------------
(* search_server.cpp: words and documents *)

\* iscntrl in the "C" locale
IsCntrl(ch) == ch \in 0..31 \/ ch = 127

IsValidWord(word) == \A i \in DOMAIN word : ~IsCntrl(word[i])

IsStopWord(word) == word \in stop_words_

\* Returns [ok |-> FALSE] when the call throws invalid_argument.
SplitIntoWordsNoStop(text) ==
    LET kAll == SplitIntoWords(text)
    IN  IF \E i \in DOMAIN kAll : ~IsValidWord(kAll[i])
        THEN [ok |-> FALSE, words |-> <<>>]
        ELSE [ok |-> TRUE, words |-> SelectSeq(kAll, LAMBDA w : ~IsStopWord(w))]

\* a + b of two ints when the sum leaves the range of int: signed overflow is
\* undefined behaviour; the code the compilers emit for it adds modulo 2^32
\* (a build that traps on overflow ends the program there)
WrapAdd(a, b) ==
    IF b > 0 /\ a > IntMax - b THEN (a - IntMax - 1) + (b - IntMax - 1)
    ELSE IF b < 0 /\ a < IntMin - b THEN (a + IntMax + 1) + (b + IntMax + 1)
    ELSE a + b

\* rating_sum after the loop over the ratings from position i on
RECURSIVE SumSeq(_, _, _)
SumSeq(ratings, i, rating_sum) ==
    IF i > Len(ratings) THEN rating_sum
    ELSE SumSeq(ratings, i + 1, WrapAdd(rating_sum, ratings[i]))

\* int / int, for a positive divisor: the quotient truncated toward zero
IntDiv(a, b) ==
    IF a >= 0 \/ a % b = 0 THEN a \div b ELSE (a \div b) + 1

\* the values the call may return
ComputeAverageRating(ratings) ==
    IF ratings = <<>> THEN {0} ELSE {IntDiv(SumSeq(ratings, 1, 0), Len(ratings))}

\* CheckDocumentId without its second test
CheckDocumentId_NegativeOnly(document_id) ==
    ~(document_id < 0)

\* TRUE when the call returns, FALSE when it throws invalid_argument
CheckDocumentId(document_id) ==
    ~(document_id < 0) /\ ~(document_id \in DOMAIN storage_)

\* 1.0 / static_cast<double>(kWords.size()): inf for no words, when it is not used
InvertedWordCount(n) == IF n = 0 THEN "inf" ELSE RelScale \div n

\* the loop over kWords stopping one word short
AddWords_SkipsLast(index, kWords, document_id, kInvertedWordCount) ==
    LET kept == SubSeq(kWords, 1, Len(kWords) - 1)
    IN  [word \in (DOMAIN index) \cup Range(kept) |->
            IF word \in Range(kept)
            THEN LET postings == IF word \in DOMAIN index THEN index[word] ELSE EmptyMap
                     freq == IF document_id \in DOMAIN postings THEN postings[document_id] ELSE 0
                     occurrences == Cardinality({i \in DOMAIN kept : kept[i] = word})
                 IN  MapPut(postings, document_id, freq + occurrences * kInvertedWordCount)
            ELSE index[word]]

\* the increment assigned, not added
AddWords_Assigned(index, kWords, document_id, kInvertedWordCount) ==
    [word \in (DOMAIN index) \cup Range(kWords) |->
        IF word \in Range(kWords)
        THEN MapPut(IF word \in DOMAIN index THEN index[word] ELSE EmptyMap,
                    document_id, kInvertedWordCount)
        ELSE index[word]]

\* for (word : kWords) word_to_document_frequency_[word][document_id] +=
\* kInvertedWordCount: each word of kWords gains the increment once per occurrence
AddWords(index, kWords, document_id, kInvertedWordCount) ==
    [word \in (DOMAIN index) \cup Range(kWords) |->
        IF word \in Range(kWords)
        THEN LET postings == IF word \in DOMAIN index THEN index[word] ELSE EmptyMap
                 freq == IF document_id \in DOMAIN postings THEN postings[document_id] ELSE 0
                 occurrences == Cardinality({i \in DOMAIN kWords : kWords[i] = word})
             IN  MapPut(postings, document_id, freq + occurrences * kInvertedWordCount)
        ELSE index[word]]

NoFilter == [overload |-> "", kind |-> "", status |-> ""]

\* what `last` holds after a call: its arguments (id, text, filter) and its
\* outcome ("ok", or the exception thrown) with the documents returned, or
\* the words and the status MatchDocument returned
Returned(op, id, text, outcome) ==
    [op |-> op, id |-> id, text |-> text, filter |-> NoFilter, outcome |-> outcome,
     docs |-> <<>>, words |-> <<>>, status |-> ""]

AddDocument(document_id, document, status, ratings) ==
    /\ UNCHANGED request_queue
    /\ IF ~CheckDocumentId(document_id)
       THEN /\ last' = Returned("AddDocument", document_id, document, "invalid_argument")
            /\ UNCHANGED <<server, history>>
       ELSE LET split == SplitIntoWordsNoStop(document)
            IN  /\ documents_' = Append(documents_, document_id)
                /\ IF ~split.ok
                   THEN /\ last' = Returned("AddDocument", document_id, document, "invalid_argument")
                        /\ UNCHANGED <<stop_words_, word_to_document_frequency_, storage_,
                                       history>>
                   ELSE /\ word_to_document_frequency_' =
                               AddWords(word_to_document_frequency_, split.words, document_id,
                                        InvertedWordCount(Len(split.words)))
                        /\ \E rating \in ComputeAverageRating(ratings) :
                               storage_' = MapPut(storage_, document_id,
                                                  [rating |-> rating, status |-> status])
                        /\ added_text' = MapPut(added_text, document_id, document)
                        /\ added_ratings' = MapPut(added_ratings, document_id, ratings)
                        /\ added_order' = Append(added_order, document_id)
                        /\ last' = Returned("AddDocument", document_id, document, "ok")
                        /\ UNCHANGED stop_words_

SetStopWords(text) ==
    /\ UNCHANGED request_queue
    /\ stop_words_' = stop_words_ \cup Range(SplitIntoWords(text))
    /\ last' = Returned("SetStopWords", 0, text, "ok")
    /\ UNCHANGED <<word_to_document_frequency_, storage_, documents_, history>>

\* GetWordFrequencies(document_id): the words of the document with their term
\* frequencies, and the empty map for an id that is not in the index
GetWordFrequencies(document_id) ==
    [word \in {w \in DOMAIN word_to_document_frequency_ :
                    document_id \in DOMAIN word_to_document_frequency_[w]}
        |-> word_to_document_frequency_[word][document_id]]

\* the document is left in the index
Erase_StoreOnly(ids) ==
    /\ storage_' = [id \in (DOMAIN storage_) \ ids |-> storage_[id]]
    /\ documents_' = SelectSeq(documents_, LAMBDA id : id \notin ids)
    /\ added_text' = [id \in (DOMAIN added_text) \ ids |-> added_text[id]]
    /\ added_ratings' = [id \in (DOMAIN added_ratings) \ ids |-> added_ratings[id]]
    /\ added_order' = SelectSeq(added_order, LAMBDA id : id \notin ids)
    /\ UNCHANGED <<stop_words_, word_to_document_frequency_>>

\* The server without the documents of ids: their metadata, their ids in the
\* insertion-order list and their ids in every word's postings go.
Erase(ids) ==
    /\ storage_' = [id \in (DOMAIN storage_) \ ids |-> storage_[id]]
    /\ documents_' = SelectSeq(documents_, LAMBDA id : id \notin ids)
    /\ word_to_document_frequency_' =
           [word \in DOMAIN word_to_document_frequency_ |->
               [id \in (DOMAIN word_to_document_frequency_[word]) \ ids |->
                   word_to_document_frequency_[word][id]]]
    /\ added_text' = [id \in (DOMAIN added_text) \ ids |-> added_text[id]]
    /\ added_ratings' = [id \in (DOMAIN added_ratings) \ ids |-> added_ratings[id]]
    /\ added_order' = SelectSeq(added_order, LAMBDA id : id \notin ids)
    /\ UNCHANGED stop_words_

\* RemoveDocument(document_id): the document goes; an unknown id is reported.
RemoveDocument(document_id) ==
    /\ UNCHANGED request_queue
    /\ IF document_id \notin DOMAIN storage_
       THEN /\ last' = Returned("RemoveDocument", document_id, <<>>, "not_found")
            /\ UNCHANGED <<server, history>>
       ELSE /\ Erase({document_id})
            /\ last' = Returned("RemoveDocument", document_id, <<>>, "ok")

----------------------------------------------------------------------------
(* remove_duplicates.cpp *)

\* the first loop telling documents apart by their frequencies as well
RECURSIVE DuplicatesBin_ByFrequencies(_, _, _, _)
DuplicatesBin_ByFrequencies(ids, i, hash_table, bin) ==
    IF i > Len(ids) THEN bin
    ELSE LET kId == ids[i]
             words_counter == GetWordFrequencies(kId)
         IN  IF words_counter \in hash_table
             THEN DuplicatesBin_ByFrequencies(ids, i + 1, hash_table, Append(bin, kId))
             ELSE DuplicatesBin_ByFrequencies(ids, i + 1, hash_table \cup {words_counter}, bin)

\* the first loop, from position i of the ids the server iterates over: bin
\* collects every id whose words were seen at an earlier position
RECURSIVE DuplicatesBin(_, _, _, _)
DuplicatesBin(ids, i, hash_table, bin) ==
    IF i > Len(ids) THEN bin
    ELSE LET kId == ids[i]
             words == DOMAIN GetWordFrequencies(kId)
         IN  IF words \in hash_table
             THEN DuplicatesBin(ids, i + 1, hash_table, Append(bin, kId))
             ELSE DuplicatesBin(ids, i + 1, hash_table \cup {words}, bin)

\* the positions of the bin whose RemoveDocument reports an unknown id: the id
\* is not live, or an earlier position of the bin has removed it
Unknown(bin) ==
    {i \in DOMAIN bin :
        bin[i] \notin DOMAIN storage_ \/ \E j \in 1 .. (i - 1) : bin[j] = bin[i]}

\* RemoveDuplicates(search_server): the second loop removes the ids of the
\* bin in order and ends at the first RemoveDocument that reports its id
RemoveDuplicates ==
    /\ UNCHANGED request_queue
    /\ LET bin == DuplicatesBin(documents_, 1, {}, <<>>)
           unknown == Unknown(bin)
           done == IF unknown = {} THEN Len(bin)
                   ELSE (CHOOSE i \in unknown : \A j \in unknown : i <= j) - 1
       IN  /\ Erase({bin[i] : i \in 1 .. done})
           /\ last' = [Returned("RemoveDuplicates", 0, <<>>,
                                IF unknown = {} THEN "ok" ELSE "not_found")
                           EXCEPT !.words = bin]

----------------------------------------------------------------------------
(* search_server.cpp: queries *)

\* std::string's operator<
RECURSIVE StringLess(_, _)
StringLess(u, v) ==
    IF v = <<>> THEN FALSE
    ELSE IF u = <<>> THEN TRUE
    ELSE IF Head(u) # Head(v) THEN Head(u) < Head(v)
    ELSE StringLess(Tail(u), Tail(v))

\* the elements of a std::set<std::string>, in iteration order
RECURSIVE InOrder(_)
InOrder(S) ==
    IF S = {} THEN <<>>
    ELSE LET m == CHOOSE x \in S : \A y \in S \ {x} : StringLess(x, y)
         IN  <<m>> \o InOrder(S \ {m})

\* the keys of a std::map<int, ...>, in iteration order
RECURSIVE IdsInOrder(_)
IdsInOrder(S) ==
    IF S = {} THEN <<>>
    ELSE LET m == CHOOSE x \in S : \A y \in S : x <= y
         IN  <<m>> \o IdsInOrder(S \ {m})

\* ParseQueryWord without the test for a second prefix
ParseQueryWord_OnePrefix(text) ==
    LET is_minus == text # <<>> /\ Head(text) = kMinusWordPrefix
        data == IF is_minus THEN Tail(text) ELSE text
    IN  IF data = <<>> \/ ~IsValidWord(data)
        THEN [ok |-> FALSE, data |-> data, is_minus |-> is_minus, is_stop |-> FALSE]
        ELSE [ok |-> TRUE, data |-> data, is_minus |-> is_minus, is_stop |-> IsStopWord(data)]

\* text.front() of an empty std::string reads its terminator '\0', which is not
\* the prefix; the empty text is rejected on the next line either way.
ParseQueryWord(text) ==
    LET is_minus == text # <<>> /\ Head(text) = kMinusWordPrefix
        data == IF is_minus THEN Tail(text) ELSE text
    IN  IF data = <<>> \/ Head(data) = kMinusWordPrefix \/ ~IsValidWord(data)
        THEN [ok |-> FALSE, data |-> data, is_minus |-> is_minus, is_stop |-> FALSE]
        ELSE [ok |-> TRUE, data |-> data, is_minus |-> is_minus, is_stop |-> IsStopWord(data)]

\* ParseQuery that keeps the stop words
ParseQuery_WithStopWords(text) ==
    LET words == SplitIntoWords(text)
        parsed == [i \in DOMAIN words |-> ParseQueryWord(words[i])]
    IN  IF \E i \in DOMAIN parsed : ~parsed[i].ok
        THEN [ok |-> FALSE, plus_words_ |-> {}, minus_words_ |-> {}]
        ELSE [ok |-> TRUE,
              plus_words_ |-> {parsed[i].data : i \in {j \in DOMAIN parsed :
                                    ~parsed[j].is_minus}},
              minus_words_ |-> {parsed[i].data : i \in {j \in DOMAIN parsed :
                                    parsed[j].is_minus}}]

\* Returns [ok |-> FALSE] when some word makes ParseQueryWord throw.
ParseQuery(text) ==
    LET words == SplitIntoWords(text)
        parsed == [i \in DOMAIN words |-> ParseQueryWord(words[i])]
    IN  IF \E i \in DOMAIN parsed : ~parsed[i].ok
        THEN [ok |-> FALSE, plus_words_ |-> {}, minus_words_ |-> {}]
        ELSE [ok |-> TRUE,
              plus_words_ |-> {parsed[i].data : i \in {j \in DOMAIN parsed :
                                    ~parsed[j].is_stop /\ ~parsed[j].is_minus}},
              minus_words_ |-> {parsed[i].data : i \in {j \in DOMAIN parsed :
                                    ~parsed[j].is_stop /\ parsed[j].is_minus}}]

GetDocumentCount == Cardinality(DOMAIN storage_)

\* MatchDocument whose minus words take nothing away
MatchDocument_NoVeto(raw_query, document_id) ==
    LET kQuery == ParseQuery(raw_query)
        Present(word) ==
            /\ word \in DOMAIN word_to_document_frequency_
            /\ document_id \in DOMAIN word_to_document_frequency_[word]
    IN  IF ~kQuery.ok THEN [outcome |-> "invalid_argument", words |-> <<>>, status |-> ""]
        ELSE IF document_id \notin DOMAIN storage_
        THEN [outcome |-> "out_of_range", words |-> <<>>, status |-> ""]
        ELSE [outcome |-> "ok",
              words |-> SelectSeq(InOrder(kQuery.plus_words_), Present),
              status |-> storage_[document_id].status]

\* MatchDocument that reports ACTUAL for every document
MatchDocument_Actual(raw_query, document_id) ==
    LET kQuery == ParseQuery(raw_query)
        Present(word) ==
            /\ word \in DOMAIN word_to_document_frequency_
            /\ document_id \in DOMAIN word_to_document_frequency_[word]
    IN  IF ~kQuery.ok THEN [outcome |-> "invalid_argument", words |-> <<>>, status |-> ""]
        ELSE IF document_id \notin DOMAIN storage_
        THEN [outcome |-> "out_of_range", words |-> <<>>, status |-> ""]
        ELSE [outcome |-> "ok",
              words |-> IF \E word \in kQuery.minus_words_ : Present(word)
                        THEN <<>>
                        ELSE SelectSeq(InOrder(kQuery.plus_words_), Present),
              status |-> "ACTUAL"]

\* MatchDocument(raw_query, document_id): what the call returns, or the
\* exception it throws: invalid_argument from ParseQuery, out_of_range from
\* storage_.at(document_id) on the last line
MatchDocument(raw_query, document_id) ==
    LET kQuery == ParseQuery(raw_query)
        Present(word) ==
            /\ word \in DOMAIN word_to_document_frequency_
            /\ document_id \in DOMAIN word_to_document_frequency_[word]
        matched_words == SelectSeq(InOrder(kQuery.plus_words_), Present)
    IN  IF ~kQuery.ok THEN [outcome |-> "invalid_argument", words |-> <<>>, status |-> ""]
        ELSE IF document_id \notin DOMAIN storage_
        THEN [outcome |-> "out_of_range", words |-> <<>>, status |-> ""]
        ELSE [outcome |-> "ok",
              words |-> IF \E word \in kQuery.minus_words_ : Present(word)
                        THEN <<>>
                        ELSE matched_words,
              status |-> storage_[document_id].status]

\* GetDocumentId(index): documents_.at(index), the int converted to size_t, so
\* that a negative index is beyond every size
GetDocumentId(index) ==
    IF index >= 0 /\ index < Len(documents_)
    THEN [outcome |-> "ok", id |-> <<documents_[index + 1]>>]
    ELSE [outcome |-> "out_of_range", id |-> <<>>]

\* a call of GetDocumentId: `last` holds the index in id, the id returned in docs
DocumentIdAt(index) ==
    /\ UNCHANGED request_queue
    /\ LET result == GetDocumentId(index)
       IN  last' = [Returned("GetDocumentId", index, <<>>, result.outcome)
                       EXCEPT !.docs = result.id]
    /\ UNCHANGED <<server, history>>

\* a call of MatchDocument, with what it returned
Match(raw_query, document_id) ==
    /\ UNCHANGED request_queue
    /\ LET result == MatchDocument(raw_query, document_id)
       IN  last' = [Returned("MatchDocument", document_id, raw_query, result.outcome)
                       EXCEPT !.words = result.words, !.status = result.status]
    /\ UNCHANGED <<server, history>>

\* log(n) in fixed point; the values of a product are the sums of its factors'
\* so that equal quotients n / d have equal logarithms, as they do in the code
LogNat(n) ==
    CASE n = 1 -> 0
      [] n = 2 -> 69314718
      [] n = 3 -> 109861229
      [] n = 4 -> 138629436
      [] n = 5 -> 160943791
      [] n = 6 -> 179175947
      [] n = 7 -> 194591015
      [] n = 8 -> 207944154
      [] n = 9 -> 219722458

\* log(n / d); a word left without postings has d = 0 and the quotient is inf
\* (or NaN), which no posting is there to be multiplied with
Log(n, d) == IF d = 0 THEN "inf" ELSE LogNat(n) - LogNat(d)

\* the inverse document frequency smoothed by one more document
ComputeWordInverseDocumentFrequency_Smoothed(word) ==
    Log(GetDocumentCount + 1, Cardinality(DOMAIN word_to_document_frequency_[word]))

ComputeWordInverseDocumentFrequency(word) ==
    Log(GetDocumentCount, Cardinality(DOMAIN word_to_document_frequency_[word]))

\* a * b of two doubles, in fixed point, without leaving 32 bits
Times(a, b) ==
    LET a1 == a \div 10000
        a0 == a % 10000
        b1 == b \div 10000
        b0 == b % 10000
    IN  a1 * b1 + ((a1 * b0 + a0 * b1 + ((a0 * b0) \div 10000)) \div 10000)

\* the predicates callers pass: the lambda of the status overload, and a
\* lambda of a caller's own that reads all three arguments
ApplyPredicate(predicate, document_id, status, rating) ==
    CASE predicate.kind = "status" -> status = predicate.status
      [] predicate.kind = "kByUserDefined" ->
            status = "ACTUAL" /\ rating < 3 /\ document_id % 2 = 0

\* the loop over one plus word's postings, from position i of its ids on
RECURSIVE AddRelevance(_, _, _, _, _, _)
AddRelevance(document_to_relevance, postings, ids, i, kInverseDocumentFreq, predicate) ==
    IF i > Len(ids) THEN document_to_relevance
    ELSE LET kDocumentId == ids[i]
             kDocumentData == storage_[kDocumentId]
             old == IF kDocumentId \in DOMAIN document_to_relevance
                    THEN document_to_relevance[kDocumentId] ELSE 0
             next == IF ApplyPredicate(predicate, kDocumentId, kDocumentData.status,
                                       kDocumentData.rating)
                     THEN MapPut(document_to_relevance, kDocumentId,
                                 old + Times(postings[kDocumentId], kInverseDocumentFreq))
                     ELSE document_to_relevance
         IN  AddRelevance(next, postings, ids, i + 1, kInverseDocumentFreq, predicate)

\* the loop over the plus words, from position i on
RECURSIVE PlusWordsLoop(_, _, _, _)
PlusWordsLoop(document_to_relevance, words, i, predicate) ==
    IF i > Len(words) THEN document_to_relevance
    ELSE IF words[i] \notin DOMAIN word_to_document_frequency_
         THEN PlusWordsLoop(document_to_relevance, words, i + 1, predicate)
         ELSE LET postings == word_to_document_frequency_[words[i]]
              IN  PlusWordsLoop(
                      AddRelevance(document_to_relevance, postings,
                                   IdsInOrder(DOMAIN postings), 1,
                                   ComputeWordInverseDocumentFrequency(words[i]), predicate),
                      words, i + 1, predicate)

\* the minus words ignored
MinusWordsLoop_Skipped(document_to_relevance, minus_words) ==
    document_to_relevance

\* the loop over the minus words: every id of their postings is erased
MinusWordsLoop(document_to_relevance, minus_words) ==
    LET vetoed == UNION {DOMAIN word_to_document_frequency_[word] :
                            word \in minus_words \cap DOMAIN word_to_document_frequency_}
    IN  [id \in (DOMAIN document_to_relevance) \ vetoed |-> document_to_relevance[id]]

MakeDocuments(document_to_relevance) ==
    LET ids == IdsInOrder(DOMAIN document_to_relevance)
    IN  [i \in DOMAIN ids |-> [id |-> ids[i],
                               relevance |-> document_to_relevance[ids[i]],
                               rating |-> storage_[ids[i]].rating]]

FindAllDocuments(query, predicate) ==
    MakeDocuments(MinusWordsLoop(
        PlusWordsLoop(EmptyMap, InOrder(query.plus_words_), 1, predicate),
        query.minus_words_))

----------------------------------------------------------------------------
(* document.cpp *)

Abs(x) == IF x < 0 THEN -x ELSE x

IsDoubleEqual(left, right) == Abs(left - right) < kEpsilon

\* operator<(const Document&, const Document&)
DocumentLess(left, right) ==
    IF IsDoubleEqual(left.relevance, right.relevance)
    THEN left.rating > right.rating
    ELSE left.relevance > right.relevance

----------------------------------------------------------------------------
(* std::sort(first, last), which compares with operator< *)

IsStrictWeakOrdering(S) ==
    LET Equiv(x, y) == ~DocumentLess(x, y) /\ ~DocumentLess(y, x)
    IN  /\ \A x, y \in S : DocumentLess(x, y) => ~DocumentLess(y, x)
        /\ \A x, y, z \in S : DocumentLess(x, y) /\ DocumentLess(y, z) => DocumentLess(x, z)
        /\ \A x, y, z \in S : Equiv(x, y) /\ Equiv(y, z) => Equiv(x, z)

\* every arrangement of S in which no element is less than one before it
RECURSIVE SortedArrangements(_)
SortedArrangements(S) ==
    IF S = {} THEN {<<>>}
    ELSE UNION { {<<m>> \o t : t \in SortedArrangements(S \ {m})} :
                 m \in {x \in S : \A y \in S : ~DocumentLess(y, x)} }

RECURSIVE Arrangements(_)
Arrangements(S) ==
    IF S = {} THEN {<<>>}
    ELSE UNION { {<<m>> \o t : t \in Arrangements(S \ {m})} : m \in S }

\* The outcomes of std::sort. The order of equivalent elements is unspecified.
\* When operator< is no strict weak ordering on the elements the behaviour is
\* undefined: the range may come back in any order.
Sort(documents) ==
    IF IsStrictWeakOrdering(Range(documents))
    THEN SortedArrangements(Range(documents))
    ELSE Arrangements(Range(documents))

----------------------------------------------------------------------------
(* search_server.h: FindTopDocuments *)

\* the result left at its full length
Resize_Never(documents) ==
    documents

Resize(documents) ==
    IF Len(documents) > kMaxResultDocumentSize
    THEN SubSeq(documents, 1, kMaxResultDocumentSize)
    ELSE documents

\* FindTopDocuments(raw_query, predicate): what the call may return, or
\* [ok |-> FALSE] when ParseQuery throws invalid_argument
FindTopDocuments(raw_query, predicate) ==
    LET kQuery == ParseQuery(raw_query)
    IN  IF ~kQuery.ok THEN [ok |-> FALSE, results |-> {}]
        ELSE [ok |-> TRUE,
              results |-> {Resize(sorted) : sorted \in Sort(FindAllDocuments(kQuery, predicate))}]

\* the status overload deaf to its argument
FindTopDocumentsStatus_Actual(raw_query, status) ==
    FindTopDocuments(raw_query, [kind |-> "status", status |-> "ACTUAL"])

\* FindTopDocuments(raw_query, status)
FindTopDocumentsStatus(raw_query, status) ==
    FindTopDocuments(raw_query, [kind |-> "status", status |-> status])

\* the one-argument overload asking for another status
FindTopDocumentsDefault_Irrelevant(raw_query) ==
    FindTopDocumentsStatus(raw_query, "IRRELEVANT")

\* FindTopDocuments(raw_query)
FindTopDocumentsDefault(raw_query) ==
    FindTopDocumentsStatus(raw_query, "ACTUAL")

\* the plus words looked up with operator[], which inserts the absent ones
Find_Inserting(raw_query, filter, found) ==
    /\ UNCHANGED request_queue
    /\ IF ~found.ok
       THEN /\ last' = [Returned("FindTopDocuments", 0, raw_query, "invalid_argument")
                           EXCEPT !.filter = filter]
            /\ UNCHANGED word_to_document_frequency_
       ELSE /\ \E documents \in found.results :
                   last' = [Returned("FindTopDocuments", 0, raw_query, "ok")
                               EXCEPT !.filter = filter, !.docs = documents]
            /\ word_to_document_frequency_' =
                   [word \in (DOMAIN word_to_document_frequency_)
                              \cup ParseQuery(raw_query).plus_words_ |->
                       IF word \in DOMAIN word_to_document_frequency_
                       THEN word_to_document_frequency_[word]
                       ELSE EmptyMap]
    /\ UNCHANGED <<stop_words_, storage_, documents_, history>>

\* a call of one of the three overloads, with what it returned
Find(raw_query, filter, found) ==
    /\ UNCHANGED request_queue
    /\ IF ~found.ok
       THEN last' = [Returned("FindTopDocuments", 0, raw_query, "invalid_argument")
                        EXCEPT !.filter = filter]
       ELSE \E documents \in found.results :
                last' = [Returned("FindTopDocuments", 0, raw_query, "ok")
                            EXCEPT !.filter = filter, !.docs = documents]
    /\ UNCHANGED <<server, history>>

FindByPredicate(raw_query, predicate) ==
    Find(raw_query, [overload |-> "predicate", kind |-> predicate.kind,
                     status |-> predicate.status],
         FindTopDocuments(raw_query, predicate))

FindByStatus(raw_query, status) ==
    Find(raw_query, [overload |-> "status", kind |-> "", status |-> status],
         FindTopDocumentsStatus(raw_query, status))

FindByDefault(raw_query) ==
    Find(raw_query, [overload |-> "default", kind |-> "", status |-> ""],
         FindTopDocumentsDefault(raw_query))

----------------------------------------------------------------------------
(* request_queue.cpp *)

\* the dequeue loop: while the timeline is longer than the window its front
\* goes, and the metric goes down by one for a front of 0
RECURSIVE Dequeue(_, _)
Dequeue(timeline, metric) ==
    IF Len(timeline) > time_window_
    THEN Dequeue(Tail(timeline), IF Head(timeline) = 0 THEN metric - 1 ELSE metric)
    ELSE [timeline |-> timeline, metric |-> metric]

\* CollectMetrics that forgets the metric when the front goes
CollectMetrics_KeepsCount(result) ==
    LET timeline == Append(timeline_, Len(result))
        kept == IF Len(timeline) > time_window_
                THEN SubSeq(timeline, Len(timeline) - time_window_ + 1, Len(timeline))
                ELSE timeline
    IN  [timeline |-> kept,
         metric |-> IF result = <<>> THEN empty_results_metric_ + 1
                    ELSE empty_results_metric_]

\* CollectMetrics(result): the timeline and the metric after the call
CollectMetrics(result) ==
    Dequeue(Append(timeline_, Len(result)),
            IF result = <<>> THEN empty_results_metric_ + 1 ELSE empty_results_metric_)

\* a rejected query caught and counted as a request without results
AddFindRequest_CountsRejected(raw_query, filter, found) ==
    /\ IF ~found.ok
       THEN LET collected == CollectMetrics(<<>>)
            IN  /\ timeline_' = collected.timeline
                /\ empty_results_metric_' = collected.metric
                /\ request_sizes' = Append(request_sizes, 0)
                /\ last' = [Returned("AddFindRequest", 0, raw_query, "invalid_argument")
                               EXCEPT !.filter = filter]
       ELSE \E result \in found.results :
                LET collected == CollectMetrics(result)
                IN  /\ timeline_' = collected.timeline
                    /\ empty_results_metric_' = collected.metric
                    /\ request_sizes' = Append(request_sizes, Len(result))
                    /\ last' = [Returned("AddFindRequest", 0, raw_query, "ok")
                                   EXCEPT !.filter = filter, !.docs = result]
    /\ UNCHANGED <<server, history, time_window_>>

\* a call of AddFindRequest: the search, then CollectMetrics on its result;
\* an exception of the search leaves the queue as it was
AddFindRequest(raw_query, filter, found) ==
    /\ IF ~found.ok
       THEN /\ last' = [Returned("AddFindRequest", 0, raw_query, "invalid_argument")
                           EXCEPT !.filter = filter]
            /\ UNCHANGED <<timeline_, empty_results_metric_, request_sizes>>
       ELSE \E result \in found.results :
                LET collected == CollectMetrics(result)
                IN  /\ timeline_' = collected.timeline
                    /\ empty_results_metric_' = collected.metric
                    /\ request_sizes' = Append(request_sizes, Len(result))
                    /\ last' = [Returned("AddFindRequest", 0, raw_query, "ok")
                                   EXCEPT !.filter = filter, !.docs = result]
    /\ UNCHANGED <<server, history, time_window_>>

AddFindRequestByStatus(raw_query, status) ==
    AddFindRequest(raw_query, [overload |-> "status", kind |-> "", status |-> status],
                   FindTopDocumentsStatus(raw_query, status))

AddFindRequestByDefault(raw_query) ==
    AddFindRequest(raw_query, [overload |-> "default", kind |-> "", status |-> ""],
                   FindTopDocumentsDefault(raw_query))

\* AddFindRequest(raw_query, predicate)
AddFindRequestByPredicate(raw_query, predicate) ==
    AddFindRequest(raw_query, [overload |-> "predicate", kind |-> predicate.kind,
                               status |-> predicate.status],
                   FindTopDocuments(raw_query, predicate))

GetNoResultRequests == empty_results_metric_

----------------------------------------------------------------------------
(* paginator.h *)

\* IteratorRange(first, end): iterators are offsets into the container
IteratorRange(first, end) == [first_ |-> first, last_ |-> end]

\* IteratorRange::size(): std::distance(first_, last_)
RangeSize(range) == range.last_ - range.first_

\* the elements from range.begin() up to range.end()
Elements(c, range) == SubSeq(c, range.first_ + 1, range.last_)

\* the last, partial page forgotten
CalculatePagesCount_Floor(first, end, page_size) ==
    (end - first) \div page_size

\* Paginator::CalculatePagesCount()
CalculatePagesCount(first, end, page_size) ==
    LET len == end - first
    IN  IF len % page_size # 0 THEN len \div page_size + 1 ELSE len \div page_size

\* std::min(page_size, static_cast<size_t>(end - it)): a negative difference
\* becomes a size_t above every page size
MinRemaining(page_size, remaining) ==
    IF remaining < 0 \/ page_size < remaining THEN page_size ELSE remaining

\* every page cut at the first element: `it` never advanced
Paginator_FromFirst(first, end, page_size) ==
    [page \in 1 .. CalculatePagesCount(first, end, page_size) |->
        IteratorRange(first, first + MinRemaining(page_size, end - first))]

\* Paginator(first, end, page_size): pages_, the page-th page cut where `it`
\* stands after page - 1 steps of page_size
Paginator(first, end, page_size) ==
    [page \in 1 .. CalculatePagesCount(first, end, page_size) |->
        LET it == first + (page - 1) * page_size
        IN  IteratorRange(it, it + MinRemaining(page_size, end - it))]

\* what `last` holds after a Paginator is built over c[first, end): its
\* members, and what each loop over it since has seen
Paginated(c, first, end, page_size) ==
    [op |-> "Paginate", c |-> c, first_ |-> first, last_ |-> end,
     page_size_ |-> page_size, pages_ |-> Paginator(first, end, page_size),
     looped |-> <<>>]

\* Paginate(c, page_size)
Paginate(c, page_size) ==
    /\ last' = Paginated(c, 0, Len(c), page_size)
    /\ UNCHANGED <<server, history, request_queue>>

\* Paginate(page, page_size) for a page of the paginator at hand
PaginatePage(page, page_size) ==
    /\ last.op = "Paginate"
    /\ page \in DOMAIN last.pages_
    /\ last' = Paginated(last.c, last.pages_[page].first_, last.pages_[page].last_,
                         page_size)
    /\ UNCHANGED <<server, history, request_queue>>

\* for (const auto& page : paginator) for (auto x : page): from begin() to
\* end() of pages_, each page from its begin() to its end()
Loop ==
    /\ last.op = "Paginate"
    /\ last' = [last EXCEPT !.looped =
                    Append(@, [page \in DOMAIN last.pages_ |->
                                  Elements(last.c, last.pages_[page])])]
    /\ UNCHANGED <<server, history, request_queue>>

----------------------------------------------------------------------------
(* Inputs and specifications *)

Statuses == {"ACTUAL", "BANNED"}

RatingLists == { <<>>, <<7, 2>> }

\* SearchServer(): the default constructor
Init ==
    /\ stop_words_ = {}
    /\ word_to_document_frequency_ = EmptyMap
    /\ storage_ = EmptyMap
    /\ documents_ = <<>>
    /\ added_text = EmptyMap
    /\ added_ratings = EmptyMap
    /\ added_order = <<>>
    /\ timeline_ = <<>>
    /\ time_window_ = 1440
    /\ empty_results_metric_ = 0
    /\ request_sizes = <<>>
    /\ last = Returned("SearchServer", 0, <<>>, "ok")

\* The document store: adding, removing, configuring stop words.

Ids == -1 .. (MaxDocs - 1)

Texts ==
    { <<97>>,                      \* "a"
      <<98, 32, 97>>,              \* "b a"
      <<97, 32, 32, 98>>,          \* "a  b"
      <<97, 32, 98, 32, 97>>,      \* "a b a"
      <<>>,                        \* ""
      <<97, 32, 18>> }             \* "a \x12"

StopTexts == { <<98>> }            \* "b"

Next ==
    \/ \E id \in Ids, text \in Texts, status \in Statuses, ratings \in RatingLists :
          /\ Len(documents_) <= MaxDocs
          /\ AddDocument(id, text, status, ratings)
    \/ \E text \in StopTexts : SetStopWords(text)
    \/ \E id \in Ids : RemoveDocument(id)

Spec == Init /\ [][Next]_vars

\* Ranking: a few short documents, numbered as they come, and the three
\* overloads of FindTopDocuments.

RankTexts ==
    { <<97>>,                      \* "a"
      <<97, 32, 98>>,              \* "a b"
      <<45, 97>> }                 \* "-a"

RankStopTexts == { <<>>, <<98>> }  \* "", "b"

Queries ==
    { <<97>>,                      \* "a"
      <<97, 32, 98>>,              \* "a b"
      <<97, 32, 45, 98>>,          \* "a -b"
      <<45, 97>> }                 \* "-a"

Predicates == { [kind |-> "kByUserDefined", status |-> ""] }

\* SearchServer(stop_words_text), for texts whose words CheckWords accepts
InitRank ==
    /\ stop_words_ \in {Range(SplitIntoWords(text)) : text \in RankStopTexts}
    /\ word_to_document_frequency_ = EmptyMap
    /\ storage_ = EmptyMap
    /\ documents_ = <<>>
    /\ added_text = EmptyMap
    /\ added_ratings = EmptyMap
    /\ added_order = <<>>
    /\ timeline_ = <<>>
    /\ time_window_ = 1440
    /\ empty_results_metric_ = 0
    /\ request_sizes = <<>>
    /\ last = Returned("SearchServer", 0, <<>>, "ok")

NextRank ==
    \/ \E text \in RankTexts, status \in Statuses, ratings \in RatingLists :
          /\ GetDocumentCount < RankDocs
          /\ AddDocument(GetDocumentCount, text, status, ratings)
    \/ \E raw_query \in Queries, predicate \in Predicates : FindByPredicate(raw_query, predicate)
    \/ \E raw_query \in Queries, status \in Statuses : FindByStatus(raw_query, status)
    \/ \E raw_query \in Queries : FindByDefault(raw_query)

SpecRank == InitRank /\ [][NextRank]_vars

\* The cap on the result: more documents than FindTopDocuments returns, all
\* matching the query.

CapTexts == { <<97>> }             \* "a"

NextCap ==
    \/ \E text \in CapTexts, ratings \in RatingLists :
          /\ GetDocumentCount < CapDocs
          /\ AddDocument(GetDocumentCount, text, "ACTUAL", ratings)
    \/ \E raw_query \in CapTexts : FindByDefault(raw_query)

SpecCap == Init /\ [][NextCap]_vars

\* Close relevances: documents of some seven hundred words with one "a" among
\* them, whose term frequencies for "a" differ by two millionths.

\* "a b b ... b", of n words
LongText(n) == [i \in 1 .. (2 * n - 1) |-> IF i = 1 THEN 97 ELSE IF i % 2 = 0 THEN 32 ELSE 98]

LongTexts == { LongText(700), LongText(701), LongText(702), <<98>> }

NextLong ==
    \/ \E text \in LongTexts, ratings \in RatingLists :
          /\ GetDocumentCount < LongDocs
          /\ AddDocument(GetDocumentCount, text, "ACTUAL", ratings)
    \/ \E raw_query \in CapTexts : FindByDefault(raw_query)

SpecLong == Init /\ [][NextLong]_vars

\* Queries, well formed and not, through MatchDocument and FindTopDocuments.

QueryDocTexts ==
    { <<97>>,                      \* "a"
      <<97, 32, 98>>,              \* "a b"
      <<98>> }                     \* "b"

RawQueries ==
    { <<97>>,                      \* "a"
      <<98, 32, 97, 32, 98>>,      \* "b a b"
      <<97, 32, 45, 98>>,          \* "a -b"
      <<98, 32, 97, 32, 45, 97>>,  \* "b a -a"
      <<45>>,                      \* "-"
      <<45, 45, 97>>,              \* "--a"
      <<97, 32, 18>> }             \* "a \x12"

NextQuery ==
    \/ \E text \in QueryDocTexts, status \in Statuses :
          /\ GetDocumentCount < QueryDocs
          /\ AddDocument(GetDocumentCount, text, status, <<>>)
    \/ \E raw_query \in RawQueries, id \in 0 .. QueryDocs : Match(raw_query, id)
    \/ \E raw_query \in RawQueries : FindByDefault(raw_query)

SpecQuery == InitRank /\ [][NextQuery]_vars

\* Duplicates: documents of few words, their ids in any order, removed one
\* by one or by RemoveDuplicates.

DupIds == 0 .. (DupDocs - 1)

DupTexts ==
    { <<97, 32, 98>>,              \* "a b"
      <<97, 32, 97, 32, 98>>,      \* "a a b"
      <<98>>,                      \* "b"
      <<>>,                        \* ""
      <<97, 32, 18>> }             \* "a \x12"

NextDup ==
    \/ \E id \in DupIds, text \in DupTexts, ratings \in RatingLists :
          /\ Len(documents_) < DupDocs
          /\ AddDocument(id, text, "ACTUAL", ratings)
    \/ \E id \in DupIds : RemoveDocument(id)
    \/ RemoveDuplicates
    \/ \E index \in -1 .. DupDocs : DocumentIdAt(index)

SpecDup == Init /\ [][NextDup]_vars

\* The request queue: windows of one to MaxWindow requests over a server of
\* a few documents.

QueueTexts == { <<97>>, <<98>> }   \* "a", "b"

QueueQueries ==
    { <<97>>,                      \* "a"
      <<98>>,                      \* "b"
      <<45, 45, 97>> }             \* "--a"

\* SearchServer(), then RequestQueue(search_server, time_window)
InitQueue ==
    /\ stop_words_ = {}
    /\ word_to_document_frequency_ = EmptyMap
    /\ storage_ = EmptyMap
    /\ documents_ = <<>>
    /\ added_text = EmptyMap
    /\ added_ratings = EmptyMap
    /\ added_order = <<>>
    /\ timeline_ = <<>>
    /\ time_window_ \in 1 .. MaxWindow
    /\ empty_results_metric_ = 0
    /\ request_sizes = <<>>
    /\ last = Returned("RequestQueue", 0, <<>>, "ok")

NextQueue ==
    \/ \E text \in QueueTexts, status \in Statuses :
          /\ GetDocumentCount < QueryDocs
          /\ AddDocument(GetDocumentCount, text, status, <<>>)
    \/ \E raw_query \in QueueQueries, status \in Statuses :
          /\ Len(request_sizes) < MaxRequests
          /\ AddFindRequestByStatus(raw_query, status)
    \/ \E raw_query \in QueueQueries :
          /\ Len(request_sizes) < MaxRequests
          /\ AddFindRequestByDefault(raw_query)

SpecQueue == InitQueue /\ [][NextQueue]_vars

\* Readers: every overload of FindTopDocuments and of AddFindRequest, and
\* MatchDocument, over a server of a few documents; the queries are those of
\* the request queue, one of them malformed.

NextReaders ==
    \/ \E text \in QueueTexts, status \in Statuses :
          /\ GetDocumentCount < QueryDocs
          /\ AddDocument(GetDocumentCount, text, status, <<>>)
    \/ \E raw_query \in QueueQueries, predicate \in Predicates :
          FindByPredicate(raw_query, predicate)
    \/ \E raw_query \in QueueQueries, status \in Statuses :
          FindByStatus(raw_query, status)
    \/ \E raw_query \in QueueQueries : FindByDefault(raw_query)
    \/ \E raw_query \in QueueQueries, id \in 0 .. QueryDocs : Match(raw_query, id)
    \/ \E raw_query \in QueueQueries, predicate \in Predicates :
          /\ Len(request_sizes) < MaxReads
          /\ AddFindRequestByPredicate(raw_query, predicate)
    \/ \E raw_query \in QueueQueries, status \in Statuses :
          /\ Len(request_sizes) < MaxReads
          /\ AddFindRequestByStatus(raw_query, status)
    \/ \E raw_query \in QueueQueries :
          /\ Len(request_sizes) < MaxReads
          /\ AddFindRequestByDefault(raw_query)

SpecReaders == InitQueue /\ [][NextReaders]_vars

\* Pages: the containers 1, 2, .., n paginated, their pages paginated again
\* with a smaller page size, and the pages looped over.

Containers == {[i \in 1 .. n |-> i] : n \in 0 .. MaxLength}

NextPaginator ==
    \/ \E c \in Containers, page_size \in 1 .. MaxPageSize : Paginate(c, page_size)
    \/ /\ last.op = "Paginate"
       /\ \E page \in DOMAIN last.pages_, page_size \in 1 .. (last.page_size_ - 1) :
              PaginatePage(page, page_size)
    \/ /\ last.op = "Paginate"
       /\ Len(last.looped) < MaxIterations
       /\ Loop

SpecPaginator == Init /\ [][NextPaginator]_vars

\* Stop words: servers constructed from a text of stop words or from a
\* container of them, and SetStopWords, with texts that hold a control
\* character or doubled spaces.

StopWordTexts ==
    { <<>>,                        \* ""
      <<98>>,                      \* "b"
      <<97, 32, 98>>,              \* "a b"
      <<98, 32, 18>>,              \* "b \x12"
      <<97, 32, 32, 98>> }         \* "a  b"

StopWordContainers == { {}, {<<97>>}, {<<98>>, <<18, 97>>} }

\* CheckWords(words): FALSE when it throws invalid_argument
CheckWords(words) == \A word \in words : IsValidWord(word)

\* SearchServer(stop_words): the set filled from the container, then checked;
\* [ok |-> FALSE] when the constructor throws and no server comes to be
SearchServerFromContainer(stop_words) ==
    [ok |-> CheckWords(stop_words), stop_words_ |-> stop_words]

\* SearchServer(stop_words_text)
SearchServerFromText(stop_words_text) ==
    SearchServerFromContainer(Range(SplitIntoWords(stop_words_text)))

\* the servers that the constructors yield
InitStop ==
    /\ \E made \in {SearchServerFromText(text) : text \in StopWordTexts}
                   \cup {SearchServerFromContainer(words) : words \in StopWordContainers} :
          /\ made.ok
          /\ stop_words_ = made.stop_words_
    /\ word_to_document_frequency_ = EmptyMap
    /\ storage_ = EmptyMap
    /\ documents_ = <<>>
    /\ added_text = EmptyMap
    /\ added_ratings = EmptyMap
    /\ added_order = <<>>
    /\ timeline_ = <<>>
    /\ time_window_ = 1440
    /\ empty_results_metric_ = 0
    /\ request_sizes = <<>>
    /\ last = Returned("SearchServer", 0, <<>>, "ok")

NextStop ==
    \/ \E text \in StopWordTexts : SetStopWords(text)
    \/ \E text \in QueryDocTexts :
          /\ GetDocumentCount < QueryDocs
          /\ AddDocument(GetDocumentCount, text, "ACTUAL", <<>>)

SpecStop == InitStop /\ [][NextStop]_vars

\* Splitting: every text of up to MaxTextLength characters out of ' ', 'a', 'b'.

RECURSIVE TextsOfLength(_)
TextsOfLength(n) ==
    IF n = 0 THEN {<<>>}
    ELSE {Append(text, ch) : text \in TextsOfLength(n - 1), ch \in {32, 97, 98}}

SplitTexts == UNION {TextsOfLength(n) : n \in 0 .. MaxTextLength}

\* a call of SplitIntoWords, with the words it returned
Split(text) ==
    /\ last' = [Returned("SplitIntoWords", 0, text, "ok")
                   EXCEPT !.words = SplitIntoWords(text)]
    /\ UNCHANGED <<server, history, request_queue>>

NextSplit == \E text \in SplitTexts : Split(text)

SpecSplit == Init /\ [][NextSplit]_vars

\* Ratings: lists of up to two ratings, small and at the ends of int.

RatingValues == {-7, -1, 2, 7, IntMax, IntMin}

RatingCatalogue ==
    {<<>>} \cup {<<a>> : a \in RatingValues} \cup {<<a, b>> : a, b \in RatingValues}

NextRating ==
    \E ratings \in RatingCatalogue :
        /\ GetDocumentCount < MaxDocs
        /\ AddDocument(GetDocumentCount, <<97>>, "ACTUAL", ratings)

SpecRating == Init /\ [][NextRating]_vars

----------------------------------------------------------------------------
(* The document store *)

AddRejected == last.op = "AddDocument" /\ last.outcome = "invalid_argument"

\* C1: a rejected AddDocument leaves the server unchanged: after a call that
\* threw, the document store, the insertion-order list and the inverted index
\* are what they were before the call.
C1_RejectedAddChangesNothing ==
    [][AddRejected' => UNCHANGED <<word_to_document_frequency_, storage_, documents_>>]_vars

HasControlCharacter(text) == \E i \in DOMAIN text : IsCntrl(text[i])

\* C2: AddDocument throws invalid_argument exactly when the id is negative, the
\* id is that of a live document, or a word of the text holds a control
\* character; otherwise it returns, the document is live and the document count
\* has grown by one.
C2_AddDocumentOutcome ==
    [][last'.op = "AddDocument" =>
          /\ last'.outcome \in {"ok", "invalid_argument"}
          /\ last'.outcome = "invalid_argument" <=>
                \/ last'.id < 0
                \/ last'.id \in DOMAIN storage_
                \/ HasControlCharacter(last'.text)
          /\ last'.outcome = "ok" =>
                /\ last'.id \in DOMAIN storage_'
                /\ Cardinality(DOMAIN storage_') = Cardinality(DOMAIN storage_) + 1]_vars

\* C2 witness: with a document live, AddDocument has rejected its id a second time
C2_Witness ==
    /\ AddRejected
    /\ last.id \in DOMAIN storage_
    /\ ~HasControlCharacter(last.text)

\* C3: the insertion-order list holds exactly the ids of the live documents,
\* each once: it is as long as GetDocumentCount() and every id in it is live.
C3_OrderListIsTheLiveDocuments ==
    /\ Len(documents_) = GetDocumentCount
    /\ Range(documents_) = DOMAIN storage_

----------------------------------------------------------------------------
(* Ranking *)

Found == last.op = "FindTopDocuments" /\ last.outcome = "ok"

ResultIds == {last.docs[i].id : i \in DOMAIN last.docs}

\* the words of a text: its maximal runs of characters other than ' '
WordsOf(text) == Range(SplitIntoWords(text)) \ {<<>>}

Contains(id, word) == word \in WordsOf(added_text[id])

LiveWith(word) == {id \in DOMAIN storage_ : Contains(id, word)}

\* the words a query asks for and the words it forbids, stop words apart
PlusWordsOf(raw_query) ==
    {w \in WordsOf(raw_query) : Head(w) # 45 /\ w \notin stop_words_}

MinusWordsOf(raw_query) ==
    {Tail(w) : w \in {v \in WordsOf(raw_query) : Head(v) = 45}} \ stop_words_

\* C4 as claimed: FindTopDocuments(query), the query being one word of a live
\* document's text that is no stop word, returns a list with that document.
C4_AddedDocumentIsFound ==
    (last.op = "FindTopDocuments" /\ last.filter.overload = "default") =>
        \A id \in DOMAIN storage_ :
            (Contains(id, last.text) /\ last.text \notin stop_words_) =>
                (last.outcome = "ok" /\ id \in ResultIds)

\* C4 as amended: FindTopDocuments(query), the query being one word of the text
\* of a live document of status ACTUAL, the word no stop word and not beginning
\* with '-', returns a list with that document, provided at most five live
\* documents of status ACTUAL contain the word.
C4_ActualDocumentIsFound ==
    (last.op = "FindTopDocuments" /\ last.filter.overload = "default") =>
        \A id \in DOMAIN storage_ :
            ( /\ Contains(id, last.text)
              /\ last.text \notin stop_words_
              /\ Head(last.text) # 45
              /\ storage_[id].status = "ACTUAL"
              /\ Cardinality({d \in LiveWith(last.text) : storage_[d].status = "ACTUAL"}) <= 5 )
            => (last.outcome = "ok" /\ id \in ResultIds)

\* C4 witness: the query "a" has returned an ACTUAL document whose text holds
\* "a", and left out a BANNED one whose text holds it too
C4_Witness ==
    /\ Found
    /\ last.filter.overload = "default"
    /\ last.text = <<97>>
    /\ \E id \in ResultIds : Contains(id, last.text) /\ storage_[id].status = "ACTUAL"
    /\ \E id \in LiveWith(last.text) : storage_[id].status = "BANNED"

\* C5: in a list FindTopDocuments returns, no entry has a relevance greater
\* than the entry before it.
C5_RelevanceNonIncreasing ==
    Found => \A i \in 1 .. (Len(last.docs) - 1) :
                last.docs[i + 1].relevance <= last.docs[i].relevance

\* C6: in a list FindTopDocuments returns, of two entries whose relevances
\* differ by less than 1e-6 the earlier has a rating no smaller than the later.
C6_TiesInRatingOrder ==
    Found => \A i, j \in DOMAIN last.docs :
                (i < j /\ Abs(last.docs[i].relevance - last.docs[j].relevance) < kEpsilon)
                    => last.docs[i].rating >= last.docs[j].rating

\* C7: FindTopDocuments never returns more than 5 documents.
C7_AtMostFiveDocuments ==
    Found => Len(last.docs) <= 5

\* C7 witness: with more than five live documents matching, five have come back
C7_Witness ==
    /\ Found
    /\ Cardinality({id \in LiveWith(last.text) : storage_[id].status = "ACTUAL"}) > 5
    /\ Len(last.docs) = 5

\* C8: FindTopDocuments returns no document that contains a minus word of the
\* query, whatever its plus words and whatever the filter says of it.
C8_NoDocumentWithMinusWord ==
    Found => \A id \in ResultIds : \A word \in MinusWordsOf(last.text) : ~Contains(id, word)

\* C8 witness: a query with a minus word has returned a document while a live
\* document of the filter's liking holds a plus word and the minus word
C8_Witness ==
    /\ Found
    /\ last.filter.overload = "default"
    /\ last.docs # <<>>
    /\ \E id \in DOMAIN storage_ :
          /\ storage_[id].status = "ACTUAL"
          /\ \E word \in PlusWordsOf(last.text) : Contains(id, word)
          /\ \E word \in MinusWordsOf(last.text) : Contains(id, word)

\* the filter a call was made with, applied to a document
PassesFilter(filter, id) ==
    CASE filter.overload = "predicate" ->
            ApplyPredicate([kind |-> filter.kind, status |-> filter.status], id,
                           storage_[id].status, storage_[id].rating)
      [] filter.overload = "status" -> storage_[id].status = filter.status
      [] filter.overload = "default" -> storage_[id].status = "ACTUAL"

\* C9: every document FindTopDocuments returns passes the filter in force: the
\* caller's predicate on (id, status, rating), the status given, or ACTUAL.
C9_ResultsPassTheFilter ==
    Found => \A id \in ResultIds : PassesFilter(last.filter, id)

\* C9 witness: the status overload, asked for BANNED, has returned a document
\* and left out a live one that holds a plus word of the query
C9_Witness ==
    /\ Found
    /\ last.filter.overload = "status"
    /\ last.filter.status = "BANNED"
    /\ last.docs # <<>>
    /\ \E id \in (DOMAIN storage_) \ ResultIds :
          \E word \in PlusWordsOf(last.text) : Contains(id, word)

RECURSIVE SumOver(_, _)
SumOver(S, f) ==
    IF S = {} THEN 0
    ELSE LET x == CHOOSE y \in S : TRUE
         IN  f[x] + SumOver(S \ {x}, f)

\* TF * IDF of a document and a word its text holds
TermRelevance(id, word) ==
    Times(word_to_document_frequency_[word][id],
          LogNat(Cardinality(DOMAIN storage_)) - LogNat(Cardinality(LiveWith(word))))

\* C10: the relevance of each returned document is the sum, over the plus words
\* of the query that occur in it, of its term frequency for the word times
\* ln(live documents / live documents containing the word).
C10_RelevanceIsTfIdf ==
    Found => \A i \in DOMAIN last.docs :
                LET id == last.docs[i].id
                    words == {w \in PlusWordsOf(last.text) : Contains(id, w)}
                IN  last.docs[i].relevance =
                        SumOver(words, [w \in words |-> TermRelevance(id, w)])

\* C10 witness: a document holding both plus words of "a b", of differing
\* document frequencies, has come back with a positive relevance
C10_Witness ==
    /\ Found
    /\ last.text = <<97, 32, 98>>
    /\ Cardinality(LiveWith(<<97>>)) # Cardinality(LiveWith(<<98>>))
    /\ \E i \in DOMAIN last.docs :
          /\ Contains(last.docs[i].id, <<97>>)
          /\ Contains(last.docs[i].id, <<98>>)
          /\ <<98>> \notin stop_words_
          /\ last.docs[i].relevance > 0

----------------------------------------------------------------------------
(* Ratings *)

RECURSIVE SumOf(_)
SumOf(s) == IF s = <<>> THEN 0 ELSE Head(s) + SumOf(Tail(s))

\* the sum of the ratings divided by their number, truncated toward zero, in
\* the integers: from the quotients and remainders of the single ratings
TruncatedMean(ratings) ==
    LET n == Len(ratings)
        remainders == SumOf([i \in DOMAIN ratings |-> ratings[i] % n])
        floor == SumOf([i \in DOMAIN ratings |-> ratings[i] \div n]) + (remainders \div n)
    IN  IF floor < 0 /\ remainders % n # 0 THEN floor + 1 ELSE floor

\* C11: the rating stored for a document is the sum of the ratings it was
\* added with divided by their number, truncated toward zero, and 0 when it
\* was added with none.
C11_RatingIsTruncatedMean ==
    \A id \in DOMAIN storage_ :
        storage_[id].rating =
            IF added_ratings[id] = <<>> THEN 0 ELSE TruncatedMean(added_ratings[id])

----------------------------------------------------------------------------
(* Term frequencies *)

AddAccepted == last.op = "AddDocument" /\ last.outcome = "ok"

\* the words of an index that have a posting for the id, with their frequencies
FrequenciesOf(index, id) ==
    [word \in {w \in DOMAIN index : id \in DOMAIN index[w]} |-> index[word][id]]

\* the indexable words of a text: its words that are no stop words
IndexableWords(text) == SelectSeq(SplitIntoWords(text), LAMBDA w : w \notin stop_words_)

Occurrences(words, word) == Cardinality({i \in DOMAIN words : words[i] = word})

----------------------------------------------------------------------------
(* Queries *)

Queried == last.op \in {"FindTopDocuments", "MatchDocument"}

Matched == last.op = "MatchDocument" /\ last.outcome = "ok"

TokensOf(raw_query) == Range(SplitIntoWords(raw_query))

\* a token the claim calls malformed: a bare '-', one that starts with '--',
\* one with a control character
Malformed(token) ==
    \/ token = <<45>>
    \/ (Len(token) >= 2 /\ token[1] = 45 /\ token[2] = 45)
    \/ \E i \in DOMAIN token : IsCntrl(token[i])

\* a word: not empty, no control character, no '-' at its head
WellFormedWord(word) ==
    /\ word # <<>>
    /\ Head(word) # 45
    /\ \A i \in DOMAIN word : ~IsCntrl(word[i])

\* a well-formed word, or one behind a single '-'
WellFormed(token) ==
    \/ WellFormedWord(token)
    \/ (token # <<>> /\ Head(token) = 45 /\ WellFormedWord(Tail(token)))

\* C13: FindTopDocuments and MatchDocument throw invalid_argument and return
\* nothing when a token of the query is a bare '-', starts with '--' or has a
\* control character; they do not throw it when every token is well formed.
C13_MalformedQueriesAreRejected ==
    Queried =>
        /\ (\E token \in TokensOf(last.text) : Malformed(token)) =>
                (last.outcome = "invalid_argument" /\ last.docs = <<>> /\ last.words = <<>>)
        /\ (\A token \in TokensOf(last.text) : WellFormed(token)) =>
                last.outcome # "invalid_argument"

\* C13 witness: MatchDocument has thrown for "--a"
C13_Witness ==
    /\ last.op = "MatchDocument"
    /\ last.text = <<45, 45, 97>>
    /\ last.id \in DOMAIN storage_
    /\ last.outcome = "invalid_argument"

\* C14 as claimed: the plus words and the minus words of a query that parses
\* are disjoint sets, and no stop word is in either.
C14_ParsedSetsDisjoint ==
    (Queried /\ ParseQuery(last.text).ok) =>
        LET query == ParseQuery(last.text)
        IN  /\ query.plus_words_ \cap query.minus_words_ = {}
            /\ query.plus_words_ \cap stop_words_ = {}
            /\ query.minus_words_ \cap stop_words_ = {}

\* C14 as amended: no stop word is in the plus words or in the minus words of
\* a query that parses, and the words in both sets are the words the query
\* gives both bare and behind '-'.
C14_ParsedSetsWithoutStopWords ==
    (Queried /\ ParseQuery(last.text).ok) =>
        LET query == ParseQuery(last.text)
        IN  /\ query.plus_words_ \cap stop_words_ = {}
            /\ query.minus_words_ \cap stop_words_ = {}
            /\ query.plus_words_ \cap query.minus_words_
                  = PlusWordsOf(last.text) \cap MinusWordsOf(last.text)

\* C14 witness: "b a -a" has parsed while "b" was a stop word
C14_Witness ==
    /\ Queried
    /\ last.text = <<98, 32, 97, 32, 45, 97>>
    /\ last.outcome = "ok"
    /\ <<98>> \in stop_words_
    /\ ParseQuery(last.text).plus_words_ = {<<97>>}
    /\ ParseQuery(last.text).minus_words_ = {<<97>>}

\* C15: MatchDocument returns no word when the document holds a minus word of
\* the query, whatever plus words it holds.
C15_MinusWordEmptiesTheMatch ==
    Matched =>
        ((\E word \in MinusWordsOf(last.text) : Contains(last.id, word))
            => last.words = <<>>)

\* C15 witness: "a -b" matched against a document holding "a" and "b"
C15_Witness ==
    /\ Matched
    /\ last.text = <<97, 32, 45, 98>>
    /\ <<98>> \notin stop_words_
    /\ Contains(last.id, <<97>>)
    /\ Contains(last.id, <<98>>)
    /\ last.words = <<>>

\* C16: for a live document that holds no minus word of the query,
\* MatchDocument returns the plus words of the query the document holds, each
\* once, in ascending order, and the status stored for the document.
C16_MatchedPlusWords ==
    ( /\ last.op = "MatchDocument"
      /\ last.outcome # "invalid_argument"
      /\ last.id \in DOMAIN storage_
      /\ \A word \in MinusWordsOf(last.text) : ~Contains(last.id, word) )
    => /\ last.outcome = "ok"
       /\ Range(last.words) = {w \in PlusWordsOf(last.text) : Contains(last.id, w)}
       /\ \A i, j \in DOMAIN last.words : i < j => StringLess(last.words[i], last.words[j])
       /\ last.status = storage_[last.id].status

\* C16 witness: "b a b" matched against a BANNED document holding both words
C16_Witness ==
    /\ Matched
    /\ last.text = <<98, 32, 97, 32, 98>>
    /\ last.words = <<<<97>>, <<98>>>>
    /\ last.status = "BANNED"

----------------------------------------------------------------------------
(* Duplicates and removal *)

\* the set of words the index holds for a document
WordSet(id) == DOMAIN FrequenciesOf(word_to_document_frequency_, id)

\* the live documents with the words of the document
Group(id) == {other \in DOMAIN storage_ : WordSet(other) = WordSet(id)}

\* where in the order of adding the live document stands
AddedAt(id) == CHOOSE i \in DOMAIN added_order : added_order[i] = id

\* the documents as they were, whole
Untouched(ids) ==
    \A id \in ids :
        /\ id \in DOMAIN storage_'
        /\ storage_'[id] = storage_[id]
        /\ FrequenciesOf(word_to_document_frequency_', id)
              = FrequenciesOf(word_to_document_frequency_, id)

\* C17: RemoveDuplicates leaves live, of each group of live documents with the
\* same set of words, the one added first and no other, and leaves the
\* documents that share their words with none as they were.
C17_FirstAddedStays ==
    [][ last'.op = "RemoveDuplicates" =>
          LET first == {id \in DOMAIN storage_ :
                           \A other \in Group(id) : AddedAt(id) <= AddedAt(other)}
          IN  /\ DOMAIN storage_' = first
              /\ Untouched(first) ]_vars

\* C18: RemoveDuplicates leaves live, of each group of live documents with the
\* same set of words, the one with the lowest id and no other, in whatever
\* order the ids were added.
C18_LowestIdStays ==
    [][ last'.op = "RemoveDuplicates" =>
          DOMAIN storage_' =
              {id \in DOMAIN storage_ : \A other \in Group(id) : id <= other} ]_vars

\* C19: a document that a step removes is removed whole: its id is in no
\* posting, not in the store and not in the insertion-order list, its word
\* frequencies are the empty map, as those of an id never added, and the
\* documents that stay keep their postings, rating and status.
C19_RemovalIsTotal ==
    [][ \A id \in (DOMAIN storage_) \ (DOMAIN storage_') :
          /\ \A word \in DOMAIN word_to_document_frequency_' :
                id \notin DOMAIN word_to_document_frequency_'[word]
          /\ id \notin Range(documents_')
          /\ FrequenciesOf(word_to_document_frequency_', id) = EmptyMap
          /\ FrequenciesOf(word_to_document_frequency_', id)
                = FrequenciesOf(word_to_document_frequency_', DupDocs)
          /\ Untouched((DOMAIN storage_) \cap (DOMAIN storage_')) ]_vars

\* C19 witness: RemoveDuplicates has removed a document and left another
C19_Witness ==
    /\ last.op = "RemoveDuplicates"
    /\ last.outcome = "ok"
    /\ last.words # <<>>
    /\ storage_ # EmptyMap
    /\ \A i \in DOMAIN last.words : last.words[i] \notin DOMAIN storage_

----------------------------------------------------------------------------
(* The request queue *)

\* the positions, among all the requests, of those in the window
Window ==
    LET n == Len(request_sizes)
    IN  (IF n > time_window_ THEN n - time_window_ + 1 ELSE 1) .. n

\* C20: after n successful AddFindRequest calls on a queue of window W >= 1
\* and initial metric 0, the timeline holds the result sizes of the last
\* min(n, W) calls, in call order, and GetNoResultRequests() is the number of
\* those that returned no document.
C20_WindowAndMetric ==
    /\ Len(timeline_) = Cardinality(Window)
    /\ \A i \in DOMAIN timeline_ :
          timeline_[i] = request_sizes[Len(request_sizes) - Len(timeline_) + i]
    /\ GetNoResultRequests = Cardinality({i \in Window : request_sizes[i] = 0})

\* C20 witness: a window of 3 after requests of sizes 0, 2, 0, 0
C20_Witness ==
    /\ time_window_ = 3
    /\ request_sizes = <<0, 2, 0, 0>>
    /\ timeline_ = <<2, 0, 0>>
    /\ GetNoResultRequests = 2

----------------------------------------------------------------------------
(* Readers *)

Reading == {"FindTopDocuments", "MatchDocument", "AddFindRequest"}

\* C21: a call of FindTopDocuments, of MatchDocument or of AddFindRequest,
\* whether it returns or throws, leaves the stop words, the document store,
\* the insertion-order list and the inverted index as they were.
C21_ReadersLeaveTheServer ==
    [][last'.op \in Reading => UNCHANGED server]_vars

\* C21: a search through the request queue has returned documents of a
\* server that holds an index
C21_Witness ==
    /\ DOMAIN word_to_document_frequency_ # {}
    /\ last.op = "AddFindRequest"
    /\ last.outcome = "ok"
    /\ last.docs # <<>>

----------------------------------------------------------------------------
(* The inverted index *)

\* C22: every document id in the postings of a word is a live document that
\* was added with the word, and every live document is in the postings of
\* each word of its text that is no stop word.
C22_PostingsAreTheLiveDocuments ==
    /\ \A word \in DOMAIN word_to_document_frequency_ :
          \A id \in DOMAIN word_to_document_frequency_[word] :
              /\ id \in DOMAIN storage_
              /\ word \in TokensOf(added_text[id])
    /\ \A id \in DOMAIN storage_ :
          \A word \in Range(IndexableWords(added_text[id])) :
              /\ word \in DOMAIN word_to_document_frequency_
              /\ id \in DOMAIN word_to_document_frequency_[word]

\* C22: a document of two words is live beside the entry of a rejected add,
\* after a removal
C22_Witness ==
    /\ \E id \in DOMAIN storage_ : Cardinality(WordSet(id)) >= 2
    /\ Len(documents_) > Cardinality(DOMAIN storage_)
    /\ last.op = "RemoveDocument"
    /\ last.outcome = "ok"

----------------------------------------------------------------------------
(* Positions *)

\* C23: GetDocumentId(position) throws out_of_range exactly when the position
\* is outside [0, GetDocumentCount()), negative positions included, and
\* returns the id of a live document otherwise.
C23_PositionsAreTheLiveDocuments ==
    last.op = "GetDocumentId" =>
        /\ last.outcome = "out_of_range"
               <=> ~(last.id >= 0 /\ last.id < GetDocumentCount)
        /\ last.outcome = "ok" => last.docs[1] \in DOMAIN storage_

----------------------------------------------------------------------------
(* Pages *)

\* the pages one after another
RECURSIVE Concatenated(_)
Concatenated(pages) ==
    IF pages = <<>> THEN <<>> ELSE Head(pages) \o Concatenated(Tail(pages))

\* C24: over L elements with page size S >= 1 the paginator holds
\* ceil(L / S) pages, none when L = 0; every page but the last has S
\* elements and the last has between 1 and S.
C24_PageCountAndSizes ==
    last.op = "Paginate" =>
        LET L == last.last_ - last.first_
            S == last.page_size_
            n == Len(last.pages_)
        IN  /\ n * S >= L
            /\ (n - 1) * S < L \/ (n = 0 /\ L = 0)
            /\ \A page \in 1 .. (n - 1) : RangeSize(last.pages_[page]) = S
            /\ n > 0 => RangeSize(last.pages_[n]) \in 1 .. S

\* C24: pages of full size before a shorter last page
C24_Witness ==
    /\ last.op = "Paginate"
    /\ Len(last.pages_) >= 3
    /\ RangeSize(last.pages_[Len(last.pages_)]) < last.page_size_

\* C25: the pages of a paginator, one after another, are the elements it
\* was built over, in order; every loop over it sees those pages; and so it
\* is for the paginator built over a page with a smaller page size.
C25_PagesReproduceTheInput ==
    last.op = "Paginate" =>
        /\ Concatenated([page \in DOMAIN last.pages_ |->
                            Elements(last.c, last.pages_[page])])
               = SubSeq(last.c, last.first_ + 1, last.last_)
        /\ \A i \in DOMAIN last.looped :
               /\ Concatenated(last.looped[i]) = SubSeq(last.c, last.first_ + 1, last.last_)
               /\ last.looped[i] = last.looped[1]

\* C25: a page that was paginated into several pages, looped over twice
C25_Witness ==
    /\ last.op = "Paginate"
    /\ last.first_ > 0
    /\ Len(last.pages_) >= 2
    /\ Len(last.looped) = 2

----------------------------------------------------------------------------
(* Document frequencies *)

\* C26: in every state reached by adds and removals each word that is a key
\* of the inverted index has at least one posting and at most as many as
\* there are live documents, so that ComputeWordInverseDocumentFrequency
\* never divides by zero and no inverse document frequency is negative.
C26_EveryIndexedWordHasAPosting ==
    \A word \in DOMAIN word_to_document_frequency_ :
        /\ Cardinality(DOMAIN word_to_document_frequency_[word]) >= 1
        /\ Cardinality(DOMAIN word_to_document_frequency_[word]) <= GetDocumentCount
        /\ ComputeWordInverseDocumentFrequency(word) >= 0

----------------------------------------------------------------------------
(* Stop words *)

\* C27: no stop word holds a control character: SetStopWords called with a
\* text that has one throws invalid_argument, and the set of a constructed
\* server has no such word.
C27_StopWordsAreValid ==
    /\ \A word \in stop_words_ : IsValidWord(word)
    /\ (last.op = "SetStopWords" /\ HasControlCharacter(last.text))
          => last.outcome = "invalid_argument"

----------------------------------------------------------------------------
(* Duplicates, once removed *)

\* no two live documents with the same set of words
Distinct(index, store) ==
    \A id, other \in DOMAIN store :
        id # other => DOMAIN FrequenciesOf(index, id) # DOMAIN FrequenciesOf(index, other)

\* C28: when RemoveDuplicates has returned no two live documents have the same
\* set of words, the empty set included, and a call of RemoveDuplicates right
\* after it returns as well, removes nothing and leaves the server as it was.
C28_RemoveDuplicatesIsIdempotent ==
    [][ /\ (last'.op = "RemoveDuplicates" /\ last'.outcome = "ok")
              => Distinct(word_to_document_frequency_', storage_')
        /\ (last.op = "RemoveDuplicates" /\ last.outcome = "ok"
              /\ last'.op = "RemoveDuplicates")
              => /\ last'.outcome = "ok"
                 /\ last'.words = <<>>
                 /\ UNCHANGED server ]_vars

\* C28: RemoveDuplicates has removed a duplicate and left two documents live,
\* one of them without words
C28_Witness ==
    /\ last.op = "RemoveDuplicates"
    /\ last.outcome = "ok"
    /\ Len(last.words) >= 1
    /\ \E id \in DOMAIN storage_ : WordSet(id) = {}
    /\ Cardinality(DOMAIN storage_) >= 2

----------------------------------------------------------------------------
(* Rejected requests *)

\* C29: a call of AddFindRequest whose query is rejected with invalid_argument
\* leaves the request queue as it was: nothing appended to the timeline,
\* nothing evicted from it, GetNoResultRequests() the same.
C29_RejectedRequestLeavesTheQueue ==
    [][(last'.op = "AddFindRequest" /\ last'.outcome = "invalid_argument")
          => /\ timeline_' = timeline_
             /\ GetNoResultRequests' = GetNoResultRequests
             /\ time_window_' = time_window_]_vars

\* C29: a query rejected by a queue whose window is full and holds a request
\* without results
C29_Witness ==
    /\ last.op = "AddFindRequest"
    /\ last.outcome = "invalid_argument"
    /\ Len(timeline_) = time_window_
    /\ GetNoResultRequests > 0

----------------------------------------------------------------------------
(* Words *)

\* where the maximal space-free substrings of the text start, in order
RunStarts(text) ==
    SelectSeq([i \in 1 .. Len(text) |-> i],
              LAMBDA i : text[i] # 32 /\ (i = 1 \/ text[i - 1] = 32))

\* the maximal space-free substrings of the text, in order
RunsOf(text) ==
    LET starts == RunStarts(text)
    IN  [k \in 1 .. Len(starts) |->
            LET rest == {j \in starts[k] .. Len(text) : text[j] = 32}
                stop == IF rest = {} THEN Len(text)
                        ELSE (CHOOSE j \in rest : \A other \in rest : j <= other) - 1
            IN  SubSeq(text, starts[k], stop)]

\* C30: SplitIntoWords returns no empty word: spaces at the start and runs of
\* spaces yield no word, and the words returned are the maximal space-free
\* substrings of the text, in order.
C30_NoEmptyWord ==
    last.op = "SplitIntoWords" =>
        /\ \A i \in DOMAIN last.words : last.words[i] # <<>>
        /\ last.words = RunsOf(last.text)

====
